---- MODULE Spec2Model ----
(***************************************************************************)
(* A model of drivingTimeRadiusCalculator.py: the DrivingTimeRadius-      *)
(* Calculator facade (load_data, geocode_address, calculate_driving_times, *)
(* filter_results, create_map, export_results, run_calculation) and the    *)
(* tkinter App that drives it from background threads.                     *)
(*                                                                         *)
(* The geocoding and distance-matrix providers, the file system and the   *)
(* user are the environment: their answers are drawn from bounded sets.    *)
(* A thread takes one step per blocking HTTP call.                         *)
(***************************************************************************)
EXTENDS Integers, Sequences, FiniteSets, TLC

VARIABLES
    zip_file,   \* "zip_codes.geojson": Absent, or Some(sequence of area records)
    html_file,  \* "driving_time_radius.html": Absent, or Some(map document)
    csv_file,   \* "zip_codes_in_range.csv": Absent, or Some(csv document)
    calc,       \* the DrivingTimeRadiusCalculator object's fields
    app,        \* the App form: the tk variables and the progress bar
    threads,    \* thread slot -> the frame of the activation running in it, or Free
    call        \* the last call or command from outside: its arguments and result

vars == <<zip_file, html_file, csv_file, calc, app, threads, call>>

-----------------------------------------------------------------------------
(* Bounds of the model.                                                    *)

\* largest dataset (number of area records in zip_codes.geojson)
MaxRecords == 101
\* largest DataFrame handed directly to filter_results / export_results
MaxRows == 2
\* largest dataset in the App specification
MaxAppRecords == 1
\* most activations alive at once
MaxThreads == 2
\* most calls made in one behaviour of the stage specification
MaxCalls == 2

(* Program constants.                                                      *)
batch_size == 25
sample_cap == 100
seconds_per_minute == 60
channel_max == 255

-----------------------------------------------------------------------------
(* Python values.  None is a string where the other values are strings,    *)
(* and the empty tuple Absent where the other values are structured, which *)
(* are then wrapped by Some.                                               *)

None == "None"
Absent == <<>>
Some(x) == <<x>>
Val(o) == o[1]

Min(S) == CHOOSE x \in S : \A y \in S : x <= y
Max(S) == CHOOSE x \in S : \A y \in S : x >= y

\* a float that is an integer number of seconds divided by 60, kept exact
Rational(n, d) == [num |-> n, den |-> d]
\* q <= m for a rational q and an integer m
RatLeqInt(q, m) == q.num <= m * q.den

-----------------------------------------------------------------------------
(* The dataset: area record k has postal code ZCTA5 and a boundary         *)
(* polygon; shapely derives the centroid from the polygon.                 *)

Polygon(k) == [ring |-> k]
AreaRecord(k) == [ZCTA5 |-> 20000 + k, geometry |-> Polygon(k)]
Dataset(n) == [k \in 1..n |-> AreaRecord(k)]
centroid(geometry) == [y |-> 38000 + geometry.ring, x |-> -(77000 + geometry.ring)]

DatasetSizes ==
    {0, 1, batch_size - 1, batch_size, batch_size + 1, 60, sample_cap, MaxRecords}

Reverse(s) == [k \in 1..Len(s) |-> s[Len(s) + 1 - k]]

\* DataFrame.sample(k): k distinct rows in a random order.  The orders
\* drawn are the dataset order and its reverse.
SampleOrders(gdf) == {gdf, Reverse(gdf)}
DataFrame_sample(order, k) == SubSeq(order, 1, k)

\* DataFrame.iloc[i:j], with Python's zero-based, end-exclusive slice
iloc_slice(df, i, j) == SubSeq(df, i + 1, IF j < Len(df) THEN j ELSE Len(df))

-----------------------------------------------------------------------------
(* The geocoding provider.  A response has a status and a list of          *)
(* candidates; a candidate has a location and address components.          *)

Component(types, short_name) == [types |-> types, short_name |-> short_name]

Candidate(lat, lng, components) ==
    [geometry |-> [location |-> [lat |-> lat, lng |-> lng]],
     address_components |-> components]

GeocodeResponses ==
    { [status |-> "OK", results |-> <<Candidate(38880, -77100,
          <<Component({"locality"}, "Arlington"),
            Component({"administrative_area_level_1", "political"}, "VA")>>)>>],
      [status |-> "OK", results |-> <<Candidate(39290, -76610,
          <<Component({"administrative_area_level_1", "political"}, "MD"),
            Component({"country"}, "US")>>)>>],
      [status |-> "OK", results |-> <<Candidate(0, 0,
          <<Component({"natural_feature"}, "Atlantic Ocean")>>)>>],
      [status |-> "OK", results |-> <<>>],
      [status |-> "ZERO_RESULTS", results |-> <<>>],
      [status |-> "REQUEST_DENIED", results |-> <<>>] }

\* the loop over address_components: the first component of the state type
state_of(components) ==
    LET hits == {k \in 1..Len(components) :
                    "administrative_area_level_1" \in components[k].types}
    IN  IF hits = {} THEN None ELSE components[Min(hits)].short_name

\* geocode_address, applied to the provider's response: the pair it
\* returns, or the exception that data['results'][0] raises on an empty list
geocode_address(data) ==
    IF data.status # "OK"
    THEN [exc |-> None, coords |-> Absent, state |-> None]
    ELSE IF Len(data.results) = 0
    THEN [exc |-> "IndexError", coords |-> Absent, state |-> None]
    ELSE LET first == data.results[1]
             location == first.geometry.location
         IN  [exc |-> None,
              coords |-> Some(<<location.lat, location.lng>>),
              state |-> state_of(first.address_components)]

\* `not origin_coords`: None is falsy, a pair of numbers is truthy
not_origin_coords(origin_coords) == origin_coords = Absent

\* a message: the string returned to the caller or shown as the status
Text(s) == [text |-> s]

GeocodingFailedMessage == Text("Geocoding failed. Please check the address.")

AnalysisComplete(count, max_time) ==
    [text |-> "Analysis complete. Found {count} zip codes within {max_time} minutes.",
     count |-> count, max_time |-> max_time]

-----------------------------------------------------------------------------
(* The distance-matrix provider.  The response that calculate_driving_-    *)
(* times reads is the one to the GET that follows the POST.  A response    *)
(* has a status; a successful one may carry rows, one per origin, each     *)
(* with one element per destination; an element with a route has a         *)
(* duration.                                                               *)

Route(j) == [duration |-> [seconds |-> 90 * j]]
NoRoute == [condition |-> "ROUTE_NOT_FOUND"]

\* the elements for m destinations, the one at position miss without a route
Elements(m, miss) == [j \in 1..m |-> IF j = miss THEN NoRoute ELSE Route(j)]

MatrixResponses(m) ==
    { [status |-> "OVER_QUERY_LIMIT"], [status |-> "OK"] }
    \cup { [status |-> "OK", rows |-> <<[elements |-> Elements(m, miss)]>>] :
              miss \in {0, 1, m} }

\* the destinations list of one batch: "lat,lng" strings, split again
destinations_of(batch) ==
    [j \in 1..Len(batch) |->
        LET c == centroid(batch[j].geometry)
            dest == <<c.y, c.x>>
        IN  [location |-> [latLng |-> [latitude |-> dest[1], longitude |-> dest[2]]]]]

\* the dict appended for element j of the response
result_row(batch, j, route) ==
    [zip_code |-> batch[j].ZCTA5,
     state |-> "VA",
     driving_time_minutes |-> Rational(route.duration.seconds, seconds_per_minute),
     geometry |-> batch[j].geometry]

\* the elements with a duration attributed to the first records of the batch
process_elements_packed(batch, elements, j, results) ==
    LET answered == SelectSeq([p \in 1..Len(elements) |-> p],
                              LAMBDA p : p >= j /\ "duration" \in DOMAIN elements[p])
    IN  results \o [k \in 1..Len(answered) |-> result_row(batch, k, elements[answered[k]])]

\* enumerate(element['elements']), from position j on
RECURSIVE process_elements(_, _, _, _)
process_elements(batch, elements, j, results) ==
    IF j > Len(elements) THEN results
    ELSE process_elements(batch, elements, j + 1,
            IF "duration" \in DOMAIN elements[j]
            THEN Append(results, result_row(batch, j, elements[j]))
            ELSE results)

RECURSIVE process_rows(_, _, _, _)
process_rows(batch, rows, r, results) ==
    IF r > Len(rows) THEN results
    ELSE process_rows(batch, rows, r + 1,
            IF "elements" \in DOMAIN rows[r]
            THEN process_elements(batch, rows[r].elements, 1, results)
            ELSE results)

\* whether the batch's response is skipped by `continue`
batch_skipped(data) == data.status # "OK"

\* the loop body with a failed batch discarding what was collected
process_batch_reset(batch, data, results) ==
    IF batch_skipped(data) THEN <<>>
    ELSE IF "rows" \in DOMAIN data
    THEN process_rows(batch, data.rows, 1, results)
    ELSE results

\* the body of the loop after the response arrived
process_batch(batch, data, results) ==
    IF batch_skipped(data) THEN results
    ELSE IF "rows" \in DOMAIN data
    THEN process_rows(batch, data.rows, 1, results)
    ELSE results

\* the slice one record short
batch_at_short(sample_zips, i) == iloc_slice(sample_zips, i, i + batch_size - 1)

\* the slice of one loop iteration, i the zero-based start
batch_at(sample_zips, i) == iloc_slice(sample_zips, i, i + batch_size)

\* range(0, len(sample_zips), batch_size): the value after i
next_i(i) == i + batch_size

\* what calculate_driving_times hands back: the function ends without
\* a return statement
calculate_driving_times_return(results) == Absent

-----------------------------------------------------------------------------
(* The stages after the queries.  A DataFrame is the sequence of its rows. *)

\* filter_results with the threshold itself excluded
filter_results_strict(driving_results, max_time, respect_state_lines, origin_state) ==
    LET within(r) == r.driving_time_minutes.num < max_time * r.driving_time_minutes.den
        same_state(r) == r.state = origin_state
        filtered == SelectSeq(driving_results, within)
    IN  IF respect_state_lines THEN SelectSeq(filtered, same_state) ELSE filtered

\* filter_results on a DataFrame: two boolean-mask selections
filter_results(driving_results, max_time, respect_state_lines, origin_state) ==
    LET within(r) == RatLeqInt(r.driving_time_minutes, max_time)
        same_state(r) == r.state = origin_state
        filtered == SelectSeq(driving_results, within)
    IN  IF respect_state_lines THEN SelectSeq(filtered, same_state) ELSE filtered

\* get_color_for_time: the red and green channels of '#rrggbb', blue 0.
\* time and max_time are rationals over the same denominator, so the
\* ratio is num/num; int() truncates.
get_color_for_time(time, max_time) ==
    LET r == (channel_max * time.num) \div max_time.num
        g == (channel_max * (max_time.num - time.num)) \div max_time.num
    IN  <<IF r < channel_max THEN r ELSE channel_max,
          IF g < channel_max THEN g ELSE channel_max,
          0>>

\* the largest driving time of a non-empty DataFrame
max_driving_time(rows) ==
    Rational(Max({rows[k].driving_time_minutes.num : k \in 1..Len(rows)}),
             seconds_per_minute)

\* create_map: the document m.save writes (the origin marker and one
\* region per row, with its fill colour), or the exception raised before
\* the save when the largest time is 0 and the ratio is 0/0
create_map(filtered_results, origin_coords) ==
    IF Len(filtered_results) > 0 /\ max_driving_time(filtered_results).num = 0
    THEN [exc |-> "DivisionByZero", doc |-> Absent]
    ELSE [exc |-> None,
          doc |-> Some(
            [marker |-> origin_coords,
             regions |->
                [k \in 1..Len(filtered_results) |->
                    [geometry |-> filtered_results[k].geometry,
                     fillColor |-> get_color_for_time(
                         filtered_results[k].driving_time_minutes,
                         max_driving_time(filtered_results))]]])]

\* DataFrame.drop(columns=['geometry']) on one row
drop_geometry(row) == [f \in (DOMAIN row) \ {"geometry"} |-> row[f]]

\* export_results without its emptiness test
export_writes_always(filtered_results) == TRUE

\* whether export_results writes: len(filtered_results) > 0
export_writes(filtered_results) == Len(filtered_results) > 0

\* export_results: the file after the call and the value returned
export_results(filtered_results, filename, file) ==
    IF export_writes(filtered_results)
    THEN [file |-> Some([header |-> <<"zip_code", "state", "driving_time_minutes">>,
                         rows |-> [k \in 1..Len(filtered_results) |->
                                      drop_geometry(filtered_results[k])]]),
          ret |-> filename]
    ELSE [file |-> file, ret |-> None]

CsvName == "zip_codes_in_range.csv"

\* run_calculation from the call of filter_results to its return, for the
\* value calculate_driving_times handed back: None is not subscriptable
run_after_queries(c, driving_results, max_time, respect_state, origin_coords, html, csv) ==
    IF driving_results = Absent
    THEN [pc |-> "Raised", exc |-> "TypeError", ret |-> Absent,
          calc |-> c, html |-> html, csv |-> csv, csv_ret |-> None]
    ELSE LET filtered_results ==
                 filter_results(Val(driving_results), max_time, respect_state,
                                c.origin_state)
             c2 == [c EXCEPT !.results = Some(filtered_results)]
             map == create_map(filtered_results, origin_coords)
             exported == export_results(filtered_results, CsvName, csv)
         IN  IF map.exc # None
             THEN [pc |-> "Raised", exc |-> map.exc, ret |-> Absent,
                   calc |-> c2, html |-> html, csv |-> csv, csv_ret |-> None]
             ELSE [pc |-> "Done", exc |-> None,
                   ret |-> Some(AnalysisComplete(Len(filtered_results), max_time)),
                   calc |-> c2, html |-> map.doc, csv |-> exported.file,
                   csv_ret |-> exported.ret]

\* DrivingTimeRadiusCalculator.load_data: the fields after it and its result
load_data(c, file) ==
    IF file = Absent
    THEN [calc |-> c, ret |-> FALSE]
    ELSE [calc |-> [c EXCEPT !.zip_gdf = file, !.state_boundaries = None],
          ret |-> TRUE]

\* lines 213-215 of run_calculation
run_enter(c, address, max_time, respect_state) ==
    [c EXCEPT !.origin_address = address,
              !.max_driving_time = max_time,
              !.respect_state_lines = respect_state]

-----------------------------------------------------------------------------
(* State.                                                                  *)

\* DrivingTimeRadiusCalculator.__init__
NewCalculator ==
    [api_key |-> None, zip_gdf |-> Absent, state_boundaries |-> None,
     results |-> Absent, origin_address |-> None, max_driving_time |-> None,
     respect_state_lines |-> None, origin_state |-> None]

\* App.__init__: the tk variables and the progress bar
NewApp ==
    [api_key_var |-> "", address_var |-> "", max_time_var |-> 60,
     respect_state_var |-> FALSE, status_var |-> Text("Ready"),
     progress |-> "stopped", browser_opened |-> FALSE]

NoCall == [op |-> "none", tick |-> 0]

\* an empty thread slot
Free == [kind |-> "free"]
Slots == 1..MaxThreads
FreeSlots == {t \in Slots : threads[t] = Free}

\* a background thread is gone once its target returned or raised; the
\* frame of a client's call is kept, with the value returned or the exception
Settle(f) ==
    IF f.owner = "gui" /\ f.pc \in {"Exited", "Raised"} THEN Free ELSE f

\* the frame of one activation of run_calculation, before its first line
CalcFrame(owner, pc) ==
    [kind |-> "calc", owner |-> owner, pc |-> pc,
     address |-> None, max_time |-> 0, respect_state |-> FALSE,
     origin_coords |-> Absent, sample_zips |-> <<>>, i |-> 0, results |-> <<>>,
     geocode_data |-> Absent, requests |-> <<>>, responses |-> <<>>,
     ret |-> Absent, exc |-> None]

GeocodeRequest(address, key) == [api |-> "geocode", address |-> address, key |-> key]

MatrixRequests(batch, key) ==
    << [api |-> "computeRouteMatrix", method |-> "POST", key |-> key,
        destinations |-> destinations_of(batch)],
       [api |-> "computeRouteMatrix", method |-> "GET"] >>

\* run_calculation entered with its arguments: lines 213-215, then the
\* geocoding request goes out
EnterRun(f, address, max_time, respect_state) ==
    [f EXCEPT !.pc = "Geocoding", !.address = address, !.max_time = max_time,
              !.respect_state = respect_state,
              !.requests = <<GeocodeRequest(address, calc.api_key)>>]

Addresses == {"1100 Wilson Blvd, Arlington"}
MaxTimes == {30, 60}
RunMaxTimes == {45}

InitFiles(sizes) ==
    /\ zip_file \in {Absent} \cup {Some(Dataset(n)) : n \in sizes}
    /\ html_file = Absent
    /\ csv_file = Absent

Init ==
    /\ InitFiles(DatasetSizes)
    /\ calc = NewCalculator
    /\ app = NewApp
    /\ threads = [t \in Slots |-> Free]
    /\ call = NoCall

-----------------------------------------------------------------------------
(* A client of the facade: load_data, then one call of run_calculation.    *)

ClientLoad ==
    /\ FreeSlots = Slots
    /\ LET out == load_data(calc, zip_file)
       IN  /\ calc' = out.calc
           /\ call' = [op |-> "load_data", tick |-> 0, ret |-> out.ret]
    /\ UNCHANGED <<zip_file, html_file, csv_file, app, threads>>

ClientRun ==
    /\ FreeSlots = Slots
    /\ calc.zip_gdf # Absent
    /\ \E address \in Addresses, max_time \in RunMaxTimes, respect_state \in BOOLEAN :
          /\ calc' = run_enter(calc, address, max_time, respect_state)
          /\ threads' = [threads EXCEPT ![1] =
                 EnterRun(CalcFrame("client", "Idle"), address, max_time, respect_state)]
    /\ UNCHANGED <<zip_file, html_file, csv_file, app, call>>

(* The steps of run_calculation in activation t.                           *)

\* the geocoding response arrives: geocode_address returns or raises, and
\* run_calculation fails, or samples the dataset and enters the loop
GeocodeReturn(t) ==
    /\ threads[t].kind = "calc"
    /\ threads[t].pc = "Geocoding"
    /\ \E data \in GeocodeResponses :
          LET f == threads[t]
              g == geocode_address(data)
          IN  IF g.exc # None
              THEN /\ threads' = [threads EXCEPT ![t] = Settle(
                          [f EXCEPT !.pc = "Raised", !.exc = g.exc,
                                    !.geocode_data = Some(data)])]
                   /\ UNCHANGED calc
              ELSE /\ calc' = [calc EXCEPT !.origin_state = g.state]
                   /\ IF not_origin_coords(g.coords)
                      THEN threads' = [threads EXCEPT ![t] =
                              [f EXCEPT !.pc = "Failed",
                                        !.geocode_data = Some(data),
                                        !.ret = Some(GeocodingFailedMessage)]]
                      ELSE IF calc.zip_gdf = Absent
                      THEN threads' = [threads EXCEPT ![t] = Settle(
                              [f EXCEPT !.pc = "Raised", !.exc = "AttributeError",
                                        !.geocode_data = Some(data),
                                        !.origin_coords = g.coords])]
                      ELSE \E order \in SampleOrders(Val(calc.zip_gdf)) :
                              threads' = [threads EXCEPT ![t] =
                                  [f EXCEPT !.pc = "Querying",
                                            !.geocode_data = Some(data),
                                            !.origin_coords = g.coords,
                                            !.sample_zips = DataFrame_sample(order,
                                                Min({sample_cap, Len(order)})),
                                            !.results = <<>>,
                                            !.i = 0]]
    /\ UNCHANGED <<zip_file, html_file, csv_file, app, call>>

\* one iteration of the loop: the batch is sliced, the two requests go
\* out, and the response to the second is processed
QueryBatch(t) ==
    /\ threads[t].kind = "calc"
    /\ threads[t].pc = "Querying"
    /\ threads[t].i < Len(threads[t].sample_zips)
    /\ LET f == threads[t]
           batch == batch_at(f.sample_zips, f.i)
       IN  \E data \in MatrixResponses(Len(batch)) :
              threads' = [threads EXCEPT ![t] =
                  [f EXCEPT !.results = process_batch(batch, data, f.results),
                            !.i = next_i(f.i),
                            !.requests = f.requests \o MatrixRequests(batch, calc.api_key),
                            !.responses = Append(f.responses, data)]]
    /\ UNCHANGED <<zip_file, html_file, csv_file, calc, app, call>>

\* the loop is over: calculate_driving_times returns, and run_calculation
\* filters, renders, exports and returns
FinishRun(t) ==
    /\ threads[t].kind = "calc"
    /\ threads[t].pc = "Querying"
    /\ ~(threads[t].i < Len(threads[t].sample_zips))
    /\ LET f == threads[t]
           out == run_after_queries(calc, calculate_driving_times_return(f.results),
                                    f.max_time, f.respect_state, Val(f.origin_coords),
                                    html_file, csv_file)
       IN  /\ threads' = [threads EXCEPT ![t] = Settle(
                  [f EXCEPT !.pc = out.pc, !.exc = out.exc, !.ret = out.ret])]
           /\ calc' = out.calc
           /\ html_file' = out.html
           /\ csv_file' = out.csv
    /\ UNCHANGED <<zip_file, app, call>>

Next ==
    \/ ClientLoad
    \/ ClientRun
    \/ \E t \in Slots : GeocodeReturn(t)
    \/ \E t \in Slots : QueryBatch(t)
    \/ \E t \in Slots : FinishRun(t)

Spec == Init /\ [][Next]_vars

-----------------------------------------------------------------------------
(* Properties of run_calculation and calculate_driving_times (Spec).       *)

CalcFrames == {t \in Slots : threads[t].kind = "calc"}

\* the activation has left run_calculation, by return or by exception
Terminated(f) == f.pc \in {"Done", "Failed", "Raised"}

\* the activation has left the loop of calculate_driving_times
LoopOver(f) ==
    /\ f.origin_coords # Absent
    /\ f.exc # "AttributeError"
    /\ \/ Terminated(f)
       \/ f.pc = "Querying" /\ ~(f.i < Len(f.sample_zips))

IsPost(req) == req.api = "computeRouteMatrix" /\ req.method = "POST"
IsMatrix(req) == req.api = "computeRouteMatrix"
Posts(f) == SelectSeq(f.requests, IsPost)

\* the number of batches of n records
NumBatches(n) == (n + batch_size - 1) \div batch_size

\* the provider reported a non-success status or returned no candidate
GeocodingFailed(data) == data.status # "OK" \/ Len(data.results) = 0

\* C1: every call of run_calculation terminates by returning a string:
\* the geocoding-failure message when geocoding fails (Failed), and
\* otherwise the 'Analysis complete' summary whose count is the size of
\* the filtered set (Done).  Stated for the calls in which geocode_address
\* itself returned; the call in which it raises is C3's.
C1_RunReturnsString ==
    \A t \in CalcFrames :
        LET f == threads[t]
        IN  (Terminated(f) /\ f.exc # "IndexError") =>
              \/ /\ f.pc = "Failed"
                 /\ GeocodingFailed(Val(f.geocode_data))
                 /\ f.ret = Some(GeocodingFailedMessage)
              \/ /\ f.pc = "Done"
                 /\ ~GeocodingFailed(Val(f.geocode_data))
                 /\ calc.results # Absent
                 /\ f.ret = Some(AnalysisComplete(Len(Val(calc.results)), f.max_time))

\* C3: when geocoding fails, by a non-success status or by an empty
\* candidate list, run_calculation returns the geocoding-failure message,
\* no distance query is issued and neither output file is written.
C3_GeocodingFailureAborts ==
    \A t \in CalcFrames :
        LET f == threads[t]
        IN  (f.geocode_data # Absent /\ GeocodingFailed(Val(f.geocode_data))) =>
              /\ f.pc = "Failed"
              /\ f.ret = Some(GeocodingFailedMessage)
              /\ \A k \in 1..Len(f.requests) : ~IsMatrix(f.requests[k])
              /\ html_file = Absent
              /\ csv_file = Absent

\* the number of results a response contributes
Contributed(data) ==
    IF data.status = "OK" /\ "rows" \in DOMAIN data
    THEN Cardinality({j \in 1..Len(data.rows[1].elements) :
                         "duration" \in DOMAIN data.rows[1].elements[j]})
    ELSE 0

\* the positions in sample_zips of the records whose element, in a
\* successful response among the first b, has a duration, in order
RECURSIVE AnsweredPositions(_, _)
AnsweredPositions(responses, b) ==
    IF b = 0 THEN <<>>
    ELSE LET data == responses[b]
             base == (b - 1) * batch_size
             here == IF data.status = "OK" /\ "rows" \in DOMAIN data
                     THEN SelectSeq([j \in 1..Len(data.rows[1].elements) |-> j],
                                    LAMBDA j : "duration" \in DOMAIN data.rows[1].elements[j])
                     ELSE <<>>
         IN  AnsweredPositions(responses, b - 1) \o [k \in 1..Len(here) |-> base + here[k]]

\* C4: a batch with a non-success status contributes no results and does
\* not stop the loop: the loop index advances once per response whatever
\* its status, every batch is queried by the time the loop is over, the
\* results are exactly those of the successful batches, and there are
\* never more results than sampled records.
C4_FailedBatchSkipped ==
    \A t \in CalcFrames :
        LET f == threads[t]
            answered == AnsweredPositions(f.responses, Len(f.responses))
        IN  /\ Len(f.results) <= Len(f.sample_zips)
            /\ f.pc = "Querying" => f.i = batch_size * Len(f.responses)
            /\ LoopOver(f) =>
                  /\ Len(f.responses) = NumBatches(Len(f.sample_zips))
                  /\ Len(Posts(f)) = NumBatches(Len(f.sample_zips))
            /\ Len(f.results) = Len(answered)
            /\ \A k \in 1..Len(answered) :
                  f.results[k].zip_code = f.sample_zips[answered[k]].ZCTA5

C4_Witness ==
    \E t \in CalcFrames :
        LET f == threads[t]
        IN  /\ LoopOver(f)
            /\ Len(f.results) > 0
            /\ \E b1, b2 \in 1..Len(f.responses) :
                  /\ b1 < b2
                  /\ f.responses[b1].status # "OK"
                  /\ Contributed(f.responses[b2]) > 0

\* C5: the sampled records are partitioned into consecutive batches of
\* at most 25: ceil(n/25) batches, all but the last of exactly 25, and
\* the destinations of the requests, taken in order, are the sampled
\* records in order, each exactly once (60 records: 25, 25, 10).
C5_BatchPartition ==
    \A t \in CalcFrames :
        LET f == threads[t]
            posts == Posts(f)
            n == Len(f.sample_zips)
            all == destinations_of(f.sample_zips)
            size(b) == Len(posts[b].destinations)
        IN  LoopOver(f) =>
              /\ Len(posts) = NumBatches(n)
              /\ \A b \in 1..Len(posts) :
                    /\ size(b) >= 1
                    /\ size(b) <= batch_size
                    /\ b < Len(posts) => size(b) = batch_size
                    /\ \A j \in 1..size(b) :
                          /\ (b - 1) * batch_size + j <= n
                          /\ posts[b].destinations[j] = all[(b - 1) * batch_size + j]
              /\ Len(posts) > 0 =>
                    (Len(posts) - 1) * batch_size + size(Len(posts)) = n
              /\ Cardinality({all[k] : k \in 1..n}) = n
              /\ n = 60 => [b \in 1..Len(posts) |-> size(b)] = <<25, 25, 10>>

C5_Witness ==
    \E t \in CalcFrames :
        LET f == threads[t]
        IN  /\ LoopOver(f)
            /\ Len(f.sample_zips) = 60
            /\ Len(Posts(f)) = 3
            /\ Len(Posts(f)[3].destinations) = 10

\* C10: within a successful batch the result built from response element
\* j carries the postal code and geometry of batch record j and that
\* element's duration in minutes; an element without a duration adds no
\* result and does not shift the elements after it.
C10_PositionalAttribution ==
    [][\A t \in CalcFrames :
         (/\ threads[t].pc = "Querying"
          /\ threads'[t].kind = "calc"
          /\ Len(threads'[t].responses) = Len(threads[t].responses) + 1)
         =>
         LET f == threads[t]
             data == threads'[t].responses[Len(threads'[t].responses)]
             old == f.results
             new == threads'[t].results
             added == SubSeq(new, Len(old) + 1, Len(new))
         IN  (data.status = "OK" /\ "rows" \in DOMAIN data) =>
               LET elements == data.rows[1].elements
                   answered == {j \in 1..Len(elements) : "duration" \in DOMAIN elements[j]}
               IN  /\ SubSeq(new, 1, Len(old)) = old
                   /\ Len(added) = Cardinality(answered)
                   /\ \A j \in answered :
                         LET k == Cardinality({j2 \in answered : j2 <= j})
                             rec == f.sample_zips[f.i + j]
                         IN  /\ added[k].zip_code = rec.ZCTA5
                             /\ added[k].geometry = rec.geometry
                             /\ added[k].driving_time_minutes =
                                   Rational(elements[j].duration.seconds, seconds_per_minute)
      ]_vars

\* a result for a record that follows an element without a duration
C10_Witness ==
    \E t \in CalcFrames :
        LET f == threads[t]
        IN  /\ Len(f.responses) > 0
            /\ f.responses[1].status = "OK"
            /\ "rows" \in DOMAIN f.responses[1]
            /\ Len(f.responses[1].rows[1].elements) > 1
            /\ "duration" \notin DOMAIN f.responses[1].rows[1].elements[1]
            /\ Len(f.results) > 0
            /\ f.results[1].zip_code = f.sample_zips[2].ZCTA5

-----------------------------------------------------------------------------
(* The stages on their own: filter_results (SpecFilter) and               *)
(* export_results (SpecExport) called with DataFrames drawn from a bounded *)
(* set, and the part of run_calculation that follows the queries run on    *)
(* such a DataFrame (SpecRuns).                                            *)

Row(zip_code, state, seconds, k) ==
    [zip_code |-> zip_code, state |-> state,
     driving_time_minutes |-> Rational(seconds, seconds_per_minute),
     geometry |-> Polygon(k)]

Rows ==
    { Row(22201, "VA", 900, 1), Row(20001, "DC", 3000, 2), Row(22202, "VA", 1800, 3) }

RECURSIVE SeqsUpTo(_, _)
SeqsUpTo(S, n) ==
    IF n = 0 THEN {<<>>}
    ELSE LET shorter == SeqsUpTo(S, n - 1)
         IN  shorter \cup {Append(s, x) : s \in shorter, x \in S}

DataFrames == SeqsUpTo(Rows, MaxRows)
States == {"VA", "DC", None}
Origins == {<<38880, -77100>>}

InitStages ==
    /\ InitFiles({0})
    /\ calc = NewCalculator
    /\ app = NewApp
    /\ threads = [t \in Slots |-> Free]
    /\ call = NoCall

CallFilter ==
    /\ call.tick < MaxCalls
    /\ \E df \in DataFrames, max_time \in MaxTimes, respect \in BOOLEAN,
          origin_state \in States :
          call' = [op |-> "filter_results", tick |-> call.tick + 1,
                   driving_results |-> df, max_time |-> max_time,
                   respect_state_lines |-> respect, origin_state |-> origin_state,
                   ret |-> filter_results(df, max_time, respect, origin_state)]
    /\ UNCHANGED <<zip_file, html_file, csv_file, calc, app, threads>>

CallExport ==
    /\ call.tick < MaxCalls
    /\ \E df \in DataFrames :
          LET out == export_results(df, CsvName, csv_file)
          IN  /\ csv_file' = out.file
              /\ call' = [op |-> "export_results", tick |-> call.tick + 1,
                          filtered_results |-> df, before |-> csv_file,
                          ret |-> out.ret]
    /\ UNCHANGED <<zip_file, html_file, calc, app, threads>>

\* lines 228-240 of run_calculation, for driving results that are a DataFrame
RunStages ==
    /\ call.tick < MaxCalls
    /\ \E df \in DataFrames, max_time \in MaxTimes, respect \in BOOLEAN,
          origin_state \in States, origin_coords \in Origins :
          LET c == [calc EXCEPT !.origin_state = origin_state]
              out == run_after_queries(c, Some(df), max_time, respect, origin_coords,
                                       html_file, csv_file)
          IN  /\ calc' = out.calc
              /\ html_file' = out.html
              /\ csv_file' = out.csv
              /\ call' = [op |-> "run_calculation", tick |-> call.tick + 1,
                          driving_results |-> df, origin_coords |-> origin_coords,
                          pc |-> out.pc, exc |-> out.exc, ret |-> out.ret,
                          csv_ret |-> out.csv_ret]
    /\ UNCHANGED <<zip_file, app, threads>>

\* filter_results applied to the bounded inputs
SpecFilter == InitStages /\ [][CallFilter]_vars

\* export_results applied to the bounded inputs, call after call on one file
SpecExport == InitStages /\ [][CallExport]_vars

\* runs of the stages one after another, on the same two output files
SpecRuns == InitStages /\ [][RunStages]_vars

\* the rows of df kept by the two predicates of the claim
Kept(df, max_time, respect, origin_state) ==
    {k \in 1..Len(df) :
        /\ df[k].driving_time_minutes.num <= max_time * df[k].driving_time_minutes.den
        /\ (~respect \/ df[k].state = origin_state)}

\* C2: filter_results returns exactly the entries r of the input with
\* r.driving_time_minutes <= max_time and (not respect_state_lines or
\* r.state == origin_state), in their order: nothing else, nothing missing.
C2_FilterExact ==
    call.op = "filter_results" =>
        LET df == call.driving_results
            kept == Kept(df, call.max_time, call.respect_state_lines, call.origin_state)
            rank(k) == Cardinality({k2 \in kept : k2 <= k})
        IN  /\ Len(call.ret) = Cardinality(kept)
            /\ \A k \in kept : call.ret[rank(k)] = df[k]
            /\ (df = <<Row(22201, "VA", 900, 1), Row(20001, "DC", 3000, 2)>>
                /\ call.max_time = 30 /\ call.respect_state_lines
                /\ call.origin_state = "VA")
               => call.ret = <<Row(22201, "VA", 900, 1)>>

\* a call that drops one row for its time and keeps one at the threshold
C2_Witness ==
    /\ call.op = "filter_results"
    /\ call.driving_results = <<Row(22202, "VA", 1800, 3), Row(20001, "DC", 3000, 2)>>
    /\ call.max_time = 30
    /\ call.ret = <<Row(22202, "VA", 1800, 3)>>

\* C6: export_results on an empty set writes no file and returns None;
\* on a non-empty set it writes the CSV file with one row per result,
\* every field but the geometry, and returns the file name.
C6_ExportResults ==
    call.op = "export_results" =>
        LET df == call.filtered_results
        IN  IF Len(df) = 0
            THEN /\ call.ret = None
                 /\ csv_file = call.before
            ELSE /\ call.ret = CsvName
                 /\ csv_file # Absent
                 /\ "geometry" \notin {Val(csv_file).header[c] :
                                         c \in 1..Len(Val(csv_file).header)}
                 /\ Len(Val(csv_file).rows) = Len(df)
                 /\ \A k \in 1..Len(df) :
                       LET row == Val(csv_file).rows[k]
                       IN  /\ DOMAIN row = (DOMAIN df[k]) \ {"geometry"}
                           /\ \A c \in DOMAIN row : row[c] = df[k][c]

\* an export of an empty set with no file there, after which there is none
C6_Witness ==
    /\ call.op = "export_results"
    /\ call.filtered_results = <<>>
    /\ call.before = Absent
    /\ csv_file = Absent

-----------------------------------------------------------------------------
(* The App (SpecApp): the user types into the form and clicks its two      *)
(* buttons; each click that gets through starts a daemon thread.           *)

ApiKeys == {"", "AIza-key"}
FormAddresses == {""} \cup Addresses

PromptApiKey == Text("Please enter your Google Maps API key")
PromptAddress == Text("Please enter an origin address")
PromptLoadData == Text("Please load data first")

\* `not self.api_key_var.get()` and `not self.address_var.get()`
entry_empty(text) == text = ""

\* the test read as (not zip_gdf) is not None, which is always true
zip_gdf_missing_misparsed(zip_gdf) == (zip_gdf = Absent) \in BOOLEAN

\* `not self.calculator.zip_gdf is not None`, that is, not (zip_gdf is not None)
zip_gdf_missing(zip_gdf) == ~(zip_gdf # Absent)

LowestFree == Min(FreeSlots)

InitApp ==
    /\ InitFiles(0..MaxAppRecords)
    /\ calc = NewCalculator
    /\ app = NewApp
    /\ threads = [t \in Slots |-> Free]
    /\ call = NoCall

TypeApiKey ==
    /\ \E key \in ApiKeys : app' = [app EXCEPT !.api_key_var = key]
    /\ UNCHANGED <<zip_file, html_file, csv_file, calc, threads, call>>

TypeAddress ==
    /\ \E address \in FormAddresses : app' = [app EXCEPT !.address_var = address]
    /\ UNCHANGED <<zip_file, html_file, csv_file, calc, threads, call>>

\* App.load_data: the Load Data button
ClickLoadData ==
    /\ FreeSlots # {}
    /\ app' = [app EXCEPT !.progress = "running", !.status_var = Text("Loading data...")]
    /\ threads' = [threads EXCEPT ![LowestFree] =
                      [kind |-> "load", owner |-> "gui", pc |-> "Spawned"]]
    /\ call' = [op |-> "load_data", tick |-> 1 - call.tick]
    /\ UNCHANGED <<zip_file, html_file, csv_file, calc>>

\* load_thread, the target of the thread App.load_data starts
LoadThread(t) ==
    /\ threads[t].kind = "load"
    /\ LET out == load_data(calc, zip_file)
       IN  /\ calc' = out.calc
           /\ app' = [app EXCEPT
                  !.status_var =
                      IF out.ret THEN Text("Data loaded successfully")
                      ELSE Text("Failed to load data. Please check the console for instructions."),
                  !.progress = "stopped"]
    /\ threads' = [threads EXCEPT ![t] = Free]
    /\ UNCHANGED <<zip_file, html_file, csv_file, call>>

\* App.calculate: the Calculate button
ClickCalculate ==
    /\ call' = [op |-> "calculate", tick |-> 1 - call.tick]
    /\ IF entry_empty(app.api_key_var)
       THEN /\ app' = [app EXCEPT !.status_var = PromptApiKey]
            /\ UNCHANGED <<calc, threads>>
       ELSE IF entry_empty(app.address_var)
       THEN /\ app' = [app EXCEPT !.status_var = PromptAddress]
            /\ UNCHANGED <<calc, threads>>
       ELSE IF zip_gdf_missing(calc.zip_gdf)
       THEN /\ app' = [app EXCEPT !.status_var = PromptLoadData]
            /\ UNCHANGED <<calc, threads>>
       ELSE /\ FreeSlots # {}
            /\ app' = [app EXCEPT !.progress = "running",
                                  !.status_var = Text("Calculating...")]
            /\ calc' = [calc EXCEPT !.api_key = app.api_key_var]
            /\ threads' = [threads EXCEPT ![LowestFree] = CalcFrame("gui", "Spawned")]
    /\ UNCHANGED <<zip_file, html_file, csv_file>>

\* calculate_thread begins: it reads the form and enters run_calculation
CalcThreadStart(t) ==
    /\ threads[t].kind = "calc"
    /\ threads[t].pc = "Spawned"
    /\ calc' = run_enter(calc, app.address_var, app.max_time_var, app.respect_state_var)
    /\ threads' = [threads EXCEPT ![t] =
           EnterRun(threads[t], app.address_var, app.max_time_var, app.respect_state_var)]
    /\ UNCHANGED <<zip_file, html_file, csv_file, app, call>>

\* calculate_thread after run_calculation returned: lines 347-353
CalcThreadFinish(t) ==
    /\ threads[t].kind = "calc"
    /\ threads[t].owner = "gui"
    /\ threads[t].pc \in {"Failed", "Done"}
    /\ app' = [app EXCEPT !.status_var = Val(threads[t].ret),
                          !.progress = "stopped",
                          !.browser_opened = (app.browser_opened \/ html_file # Absent)]
    /\ threads' = [threads EXCEPT ![t] = Free]
    /\ UNCHANGED <<zip_file, html_file, csv_file, calc, call>>

NextApp ==
    \/ TypeApiKey
    \/ TypeAddress
    \/ ClickLoadData
    \/ ClickCalculate
    \/ \E t \in Slots : LoadThread(t)
    \/ \E t \in Slots : CalcThreadStart(t)
    \/ \E t \in Slots : GeocodeReturn(t)
    \/ \E t \in Slots : QueryBatch(t)
    \/ \E t \in Slots : FinishRun(t)
    \/ \E t \in Slots : CalcThreadFinish(t)

SpecApp == InitApp /\ [][NextApp]_vars

\* C8: App.calculate starts a calculation only when the API key and the
\* address are non-empty and the dataset is loaded; with any of the three
\* missing it shows a prompt for a missing one, starts no thread, does not
\* start the progress indicator and leaves calculator.api_key alone; with
\* all three present it starts the calculation.
C8_CalculateValidates ==
    [][(call' # call /\ call'.op = "calculate") =>
         LET key_missing == app.api_key_var = ""
             address_missing == app.address_var = ""
             data_missing == calc.zip_gdf = Absent
             prompts == (IF key_missing THEN {PromptApiKey} ELSE {})
                        \cup (IF address_missing THEN {PromptAddress} ELSE {})
                        \cup (IF data_missing THEN {PromptLoadData} ELSE {})
         IN  IF key_missing \/ address_missing \/ data_missing
             THEN /\ app'.status_var \in prompts
                  /\ threads' = threads
                  /\ app'.progress = app.progress
                  /\ calc'.api_key = calc.api_key
             ELSE /\ \E t \in Slots :
                        /\ threads[t] = Free
                        /\ threads'[t].kind = "calc"
                        /\ \A u \in Slots \ {t} : threads'[u] = threads[u]
                  /\ app'.progress = "running"
                  /\ calc'.api_key = app.api_key_var
      ]_vars

\* Calculate was clicked with the key and the address filled in and no
\* dataset loaded: the prompt is up and nothing runs
C8_Witness ==
    /\ call.op = "calculate"
    /\ app.api_key_var # ""
    /\ app.address_var # ""
    /\ calc.zip_gdf = Absent
    /\ app.status_var = PromptLoadData
    /\ app.progress = "stopped"
    /\ FreeSlots = Slots

\* C9: there are never two calculation threads in flight, nor two load
\* threads in flight.
C9_OneThreadPerAction ==
    /\ Cardinality({t \in Slots : threads[t].kind = "calc"}) <= 1
    /\ Cardinality({t \in Slots : threads[t].kind = "load"}) <= 1

=============================================================================
